---- MODULE Spec2Model ----
(***************************************************************************)
(* The Clerk webhook POST handler of rajuX75/emailux (the first, current   *)
(* revision in src/unnamed/part_000, lines 1-182): payload validation,     *)
(* normalisation into a user row and email rows, and the upserts that      *)
(* persist them.  Each handler invocation is a process whose steps are the *)
(* stretches of code between two awaits.                                   *)
(***************************************************************************)
EXTENDS Integers, Sequences, FiniteSets, TLC

VARIABLES
    users,      \* the user table: id -> row
    emails,     \* the userEmail table: id -> row
    pc,         \* per invocation: "idle", "json", "user", "emails", "done"
    req,        \* per invocation: the request being handled
    userData,   \* per invocation: the local const userData (line 84)
    idx,        \* per invocation: position of the for-of loop (line 113)
    resp,       \* per invocation: HTTP status of the Response, 0 before it
    err,        \* per invocation: the error the catch block received
    pre,        \* history: the store when the request arrived or, when it
                \* arrived during other invocations, when the first of them began
    calls,      \* history: the persistence calls the invocation issued
    again,      \* history: the request is a redelivery of the previous one
    order       \* history: invocations begun since the store was last quiet

vars == <<users, emails, pc, req, userData, idx, resp, err, pre, calls, again, order>>

(***************************************************************************)
(* Bounds of the model.                                                    *)
(***************************************************************************)
MaxEmails == 2          \* longest email_addresses array that is enumerated

Handlers == {1, 2}

(***************************************************************************)
(* JSON values.  A JSON object is a record whose DOMAIN is the set of keys *)
(* it has, so an absent key is absent from the DOMAIN.  JSON null and JS   *)
(* undefined are the two values below.                                     *)
(***************************************************************************)
Null == "<null>"
Undefined == "<undefined>"

Has(r, k) == k \in DOMAIN r

Drop(r, k) == [x \in DOMAIN r \ {k} |-> r[x]]

\* r.k in JavaScript: undefined when the key is absent
Field(r, k) == IF Has(r, k) THEN r[k] ELSE Undefined

SeqUpTo(S, n) == UNION {[1..k -> S] : k \in 0..n}

(***************************************************************************)
(* webhookSchema (lines 6-40).  z.string().email() and z.string().url()    *)
(* are regular-expression tests on the text; the strings of the model are  *)
(* atoms, so each test is the set of the model's strings that pass it.     *)
(***************************************************************************)
WellFormedEmails == {"a@x.io", "b@x.io", "ada@gmail.com"}

WellFormedUrls == {"https://img.clerk.com/u.png", "https://lh3.google.com/p.png"}

\* z.string() where z.string().email() was meant
IsEmailUnchecked(s) == TRUE

IsEmail(s) == s \in WellFormedEmails

IsUrl(s) == s \in WellFormedUrls

\* z.string(): the key is there and its value is not null
StringIssues(r, k, path) ==
    IF Has(r, k) /\ r[k] # Null THEN {} ELSE {path \o <<k>>}

\* z.string().nullable(), z.number(), z.boolean(): the key is there
RequiredIssues(r, k, path) ==
    IF Has(r, k) THEN {} ELSE {path \o <<k>>}

\* z.string().email()
EmailFieldIssues(r, k, path) ==
    IF Has(r, k) /\ r[k] # Null /\ IsEmail(r[k]) THEN {} ELSE {path \o <<k>>}

\* z.string().url().nullable()
NullableUrlIssues(r, k, path) ==
    IF Has(r, k) /\ (r[k] = Null \/ IsUrl(r[k])) THEN {} ELSE {path \o <<k>>}

\* z.string().url().optional()
OptionalUrlIssues(r, k, path) ==
    IF ~Has(r, k) \/ (r[k] # Null /\ IsUrl(r[k])) THEN {} ELSE {path \o <<k>>}

\* z.string().optional()
OptionalStringIssues(r, k, path) ==
    IF ~Has(r, k) \/ r[k] # Null THEN {} ELSE {path \o <<k>>}

\* one element of data.email_addresses (lines 10-17)
EmailAddressIssues(e, path) ==
    EmailFieldIssues(e, "email_address", path)
        \cup StringIssues(e, "id", path)
        \cup (IF Has(e, "verification")
                THEN StringIssues(e.verification, "status", path \o <<"verification">>)
                       \cup StringIssues(e.verification, "strategy", path \o <<"verification">>)
                ELSE {path \o <<"verification">>})

\* one element of data.external_accounts (lines 21-28)
ExternalAccountIssues(a, path) ==
    EmailFieldIssues(a, "email_address", path)
        \cup OptionalUrlIssues(a, "picture", path)
        \cup StringIssues(a, "approved_scopes", path)
        \cup OptionalStringIssues(a, "google_id", path)

\* z.array(...): zod reports the index of an element, counted from 0
EmailAddressesIssues(xs, path) ==
    UNION {EmailAddressIssues(xs[i], path \o <<ToString(i - 1)>>) : i \in 1..Len(xs)}

ExternalAccountsIssues(xs, path) ==
    UNION {ExternalAccountIssues(xs[i], path \o <<ToString(i - 1)>>) : i \in 1..Len(xs)}

DataIssues(d, path) ==
    StringIssues(d, "id", path)
        \cup (IF Has(d, "email_addresses")
                THEN EmailAddressesIssues(d.email_addresses, path \o <<"email_addresses">>)
                ELSE {path \o <<"email_addresses">>})
        \cup (IF Has(d, "external_accounts")
                THEN ExternalAccountsIssues(d.external_accounts,
                                            path \o <<"external_accounts">>)
                ELSE {})
        \cup RequiredIssues(d, "first_name", path)
        \cup RequiredIssues(d, "last_name", path)
        \cup NullableUrlIssues(d, "image_url", path)
        \cup RequiredIssues(d, "created_at", path)
        \cup RequiredIssues(d, "updated_at", path)
        \cup RequiredIssues(d, "banned", path)
        \cup RequiredIssues(d, "external_id", path)

\* webhookSchema.safeParse(rawBody): the paths of the fields that fail;
\* success is the empty set
webhookSchemaIssues(rawBody) ==
    (IF Has(rawBody, "data") THEN DataIssues(rawBody.data, <<"data">>) ELSE {<<"data">>})
        \cup StringIssues(rawBody, "type", <<>>)

(***************************************************************************)
(* Normalisation (lines 72-98).                                            *)
(***************************************************************************)
\* a || b: the empty string falls through as well
CoalesceFalsy(a, b) == IF a = Null \/ a = Undefined \/ a = "" THEN b ELSE a

\* a ?? b: b when a is null or undefined, and only then
Coalesce(a, b) == IF a = Null \/ a = Undefined THEN b ELSE a

\* new Date(ms): the instant ms milliseconds after the epoch
ToDate(ms) == [epochMs |-> ms]

\* data.external_accounts?.[0]: <<>> stands for undefined
externalAccountOf(data) ==
    IF Has(data, "external_accounts") /\ Len(data.external_accounts) > 0
    THEN <<data.external_accounts[1]>>
    ELSE <<>>

\* externalAccount?.k
OptField(externalAccount, k) ==
    IF externalAccount = <<>> THEN Undefined ELSE Field(externalAccount[1], k)

firstNameOf(data, externalAccount) ==
    Coalesce(Coalesce(data.first_name, OptField(externalAccount, "given_name")), Null)

lastNameOf(data, externalAccount) ==
    Coalesce(Coalesce(data.last_name, OptField(externalAccount, "family_name")), Null)

imageUrlOf(data, externalAccount) ==
    Coalesce(Coalesce(data.image_url, OptField(externalAccount, "picture")), Null)

\* the object literal of lines 84-98
userDataOf(data) ==
    LET primaryEmail == data.email_addresses[1]
        externalAccount == externalAccountOf(data)
    IN  [id |-> data.id,
         emailAddress |-> primaryEmail.email_address,
         firstName |-> firstNameOf(data, externalAccount),
         lastName |-> lastNameOf(data, externalAccount),
         imageUrl |-> imageUrlOf(data, externalAccount),
         emailVerified |-> (primaryEmail.verification.status = "verified"),
         createdAtClerk |-> ToDate(data.created_at),
         updatedAtClerk |-> ToDate(data.updated_at),
         banned |-> data.banned,
         externalId |-> data.external_id,
         oauthProvider |-> IF externalAccount # <<>> THEN "google" ELSE Null,
         oauthId |-> Coalesce(OptField(externalAccount, "google_id"), Null),
         oauthScopes |-> Coalesce(OptField(externalAccount, "approved_scopes"), Null)]

(***************************************************************************)
(* The store.  upsert updates the row the where clause finds with the keys *)
(* of the update object, and creates the row otherwise; it is one atomic   *)
(* operation of the database.                                              *)
(***************************************************************************)
NoRows == <<>>

Merge(row, update) ==
    [k \in DOMAIN row |-> IF k \in DOMAIN update THEN update[k] ELSE row[k]]

Upsert(table, id, update, create) ==
    IF id \in DOMAIN table
    THEN [table EXCEPT ![id] = Merge(@, update)]
    ELSE table @@ (id :> create)

\* update: {firstName: firstName ?? undefined, ...}: null fields left out
UserUpdateDefined(ud) ==
    [k \in {x \in DOMAIN ud : ~(x \in {"firstName", "lastName", "imageUrl"} /\ ud[x] = Null)}
        |-> ud[k]]

\* update: userData (line 106)
UserUpdate(ud) == ud

\* create: userData (line 107)
UserCreate(ud) == ud

\* db.user.upsert (lines 104-108)
UserUpsert(table, ud) == Upsert(table, ud.id, UserUpdate(ud), UserCreate(ud))

\* update: {...} (lines 116-120)
EmailUpdate(email) ==
    [emailAddress |-> email.email_address,
     verificationStatus |-> email.verification.status,
     verificationStrategy |-> email.verification.strategy]

\* userId: email.id where userId: data.id was meant
EmailCreateOwnId(email, userId) ==
    [id |-> email.id,
     userId |-> email.id,
     emailAddress |-> email.email_address,
     verificationStatus |-> email.verification.status,
     verificationStrategy |-> email.verification.strategy]

\* create: {...} (lines 121-127)
EmailCreate(email, userId) ==
    [id |-> email.id,
     userId |-> userId,
     emailAddress |-> email.email_address,
     verificationStatus |-> email.verification.status,
     verificationStrategy |-> email.verification.strategy]

\* db.userEmail.create with a generated id where the upsert was meant
EmailInsert(table, email, userId) ==
    LET id == "gen_" \o ToString(Cardinality(DOMAIN table) + 1)
    IN  table @@ (id :> [EmailCreate(email, userId) EXCEPT !.id = id])

\* db.userEmail.upsert (lines 114-128)
EmailUpsert(table, email, userId) ==
    Upsert(table, email.id, EmailUpdate(email), EmailCreate(email, userId))

(***************************************************************************)
(* The catch block (lines 141-181).  An error is a                         *)
(* PrismaClientKnownRequestError with a code (known) or anything else.     *)
(***************************************************************************)
NoError == [known |-> FALSE, code |-> "none"]

SyntaxError == [known |-> FALSE, code |-> "SyntaxError"]

\* what an upsert can throw: the schema and the state of the database
\* server are not part of the handler, so each call may fail in each way
StoreErrors ==
    {[known |-> TRUE, code |-> c] : c \in {"P2002", "P2014", "P2003", "P2025"}}
        \cup {[known |-> FALSE, code |-> "Error"]}

\* one error of each kind: a known request error and any other exception
SomeStoreErrors == {[known |-> TRUE, code |-> "P2002"], [known |-> FALSE, code |-> "Error"]}

\* only the conflict is told apart
prismaErrorStatusConflictOnly(code) == IF code = "P2002" THEN 409 ELSE 500

\* prismaErrors[error.code] ?? {status: 500, ...} (lines 145-155)
prismaErrorStatus(code) ==
    CASE code = "P2002" -> 409
      [] code = "P2014" -> 400
      [] code = "P2003" -> 400
      [] OTHER -> 500

CatchStatus(error) ==
    IF error.known THEN prismaErrorStatus(error.code) ELSE 500

(***************************************************************************)
(* Requests.  req.body is null (NoBody), or holds text that is not JSON    *)
(* (BadJson), or holds a JSON value.                                       *)
(***************************************************************************)
NoBody == [kind |-> "none"]

BadJson == [kind |-> "text"]

Json(v) == [kind |-> "json", value |-> v]

NoRequest == [kind |-> "idle"]

UserIds == {"user_1", "user_2"}

EmailIds == {"idn_1", "idn_2"}

EmailEntries(ids, addresses, statuses) ==
    [id : ids, email_address : addresses,
     verification : [status : statuses, strategy : {"email_code"}]]

\* external accounts: given_name, family_name, picture and google_id are
\* keys an account may lack
ExternalAccounts ==
    LET core == [email_address : {"ada@gmail.com"}, approved_scopes : {"email profile"}]
        With(S, k, V) == S \cup {a @@ (k :> v) : a \in S, v \in V}
    IN  With(With(With(With(core,
            "given_name", {Null, "Ada"}),
            "family_name", {Null, "Lovelace"}),
            "picture", {"https://lh3.google.com/p.png"}),
            "google_id", {"g123"})

\* the data objects over the domains D; external_accounts is a key that
\* may be absent
DataSet(D) ==
    LET core == [id : D.ids, email_addresses : D.emailSeqs,
                 first_name : D.first, last_name : D.last, image_url : D.image,
                 created_at : {1000}, updated_at : D.updated,
                 banned : D.banned, external_id : {Null}]
    IN  core \cup {d @@ ("external_accounts" :> x) : d \in core, x \in D.exts}

Events(D) == {Json([type |-> "user.updated", data |-> d]) : d \in DataSet(D)}

\* payloads the schema rejects, and well-formed ones with no email address
Defects(d) ==
    {Json([type |-> "user.updated", data |-> x]) :
        x \in {Drop(d, "email_addresses"),
               [d EXCEPT !.id = Null],
               [d EXCEPT !.image_url = "not a url"]}
              \cup {[d EXCEPT !.email_addresses[i].email_address = "not-an-email"] :
                        i \in 1..Len(d.email_addresses)}}

DefectDomain ==
    [ids |-> {"user_1"},
     emailSeqs |-> SeqUpTo(EmailEntries(EmailIds, {"a@x.io"}, {"verified"}), MaxEmails) \ {<<>>},
     first |-> {"Grace"}, last |-> {Null}, image |-> {Null}, exts |-> {},
     updated |-> {2000}, banned |-> {FALSE}]

BadBodies ==
    {NoBody, BadJson, Json([type |-> "user.updated"])}
        \cup UNION {Defects(d) : d \in DataSet(DefectDomain)}

\* one request, every shape of name, picture and external account
NormalizeDomain ==
    [ids |-> {"user_1"},
     emailSeqs |-> SeqUpTo(EmailEntries({"idn_1"}, {"a@x.io"}, {"verified", "unverified"}),
                           MaxEmails),
     first |-> {Null, "", "Grace"}, last |-> {Null, "", "Hopper"},
     image |-> {Null, "https://img.clerk.com/u.png"},
     exts |-> {<<>>} \cup {<<a>> : a \in ExternalAccounts},
     updated |-> {2000}, banned |-> {FALSE, TRUE}]

\* sequences of requests: two users that may name the same email ids
StoreDomain ==
    [ids |-> UserIds,
     emailSeqs |-> SeqUpTo(EmailEntries(EmailIds, {"a@x.io", "b@x.io"}, {"verified"}),
                           MaxEmails),
     first |-> {Null}, last |-> {Null}, image |-> {Null}, exts |-> {},
     updated |-> {2000}, banned |-> {FALSE}]

(***************************************************************************)
(* The handler POST (lines 42-182), one action per stretch of code between *)
(* two awaits.                                                             *)
(***************************************************************************)
Store == [users |-> users, emails |-> emails]

InFlight(h) == pc[h] \in {"json", "user", "emails"}

Data(h) == req[h].value.data

\* the catch block answers with the status of the error it caught
Caught(h, error) ==
    /\ err' = [err EXCEPT ![h] = error]
    /\ resp' = [resp EXCEPT ![h] = CatchStatus(error)]
    /\ pc' = [pc EXCEPT ![h] = "done"]

Accept(h, body) ==
    /\ req' = [req EXCEPT ![h] = body]
    /\ pre' = [pre EXCEPT ![h] = IF \E g \in Handlers \ {h} : InFlight(g)
                                  THEN pre[order[1]]
                                  ELSE Store]
    /\ calls' = [calls EXCEPT ![h] = <<>>]
    /\ idx' = [idx EXCEPT ![h] = 0]
    /\ err' = [err EXCEPT ![h] = NoError]
    /\ userData' = [userData EXCEPT ![h] = <<>>]
    /\ order' = IF \E g \in Handlers \ {h} : InFlight(g)
                THEN Append(order, h)
                ELSE <<h>>
    /\ IF body = NoBody
       THEN \* lines 44-49
            /\ resp' = [resp EXCEPT ![h] = 400]
            /\ pc' = [pc EXCEPT ![h] = "done"]
       ELSE \* line 51: await req.json()
            /\ resp' = [resp EXCEPT ![h] = 0]
            /\ pc' = [pc EXCEPT ![h] = "json"]
    /\ UNCHANGED <<users, emails>>

\* the request of invocation h arrives; invocations are numbered in the
\* order of their arrival
Receive(h, bodies) ==
    /\ pc[h] = "idle"
    /\ \A g \in Handlers : g < h => pc[g] # "idle"
    /\ \E body \in bodies : Accept(h, body)
    /\ again' = [again EXCEPT ![h] = FALSE]

\* the event source delivers the event it just delivered once more
Redeliver(h) ==
    /\ pc[h] = "done"
    /\ resp[h] = 200
    /\ ~again[h]
    /\ Accept(h, req[h])
    /\ again' = [again EXCEPT ![h] = TRUE]

\* line 51: req.json() throws on a body that is not JSON
JsonThrows(h) ==
    /\ pc[h] = "json"
    /\ req[h].kind = "text"
    /\ Caught(h, SyntaxError)
    /\ UNCHANGED <<users, emails, req, userData, idx, pre, calls, again, order>>

\* lines 56-70: safeParse fails
SchemaRejects(h) ==
    /\ pc[h] = "json"
    /\ req[h].kind = "json"
    /\ webhookSchemaIssues(req[h].value) # {}
    /\ resp' = [resp EXCEPT ![h] = 400]
    /\ pc' = [pc EXCEPT ![h] = "done"]
    /\ UNCHANGED <<users, emails, req, userData, idx, err, pre, calls, again, order>>

\* lines 75-78: no primaryEmail
NoPrimaryEmail(h) ==
    /\ pc[h] = "json"
    /\ req[h].kind = "json"
    /\ webhookSchemaIssues(req[h].value) = {}
    /\ Len(Data(h).email_addresses) = 0
    /\ resp' = [resp EXCEPT ![h] = 400]
    /\ pc' = [pc EXCEPT ![h] = "done"]
    /\ UNCHANGED <<users, emails, req, userData, idx, err, pre, calls, again, order>>

\* lines 81-104: userData is built and db.user.upsert is called
Normalize(h) ==
    /\ pc[h] = "json"
    /\ req[h].kind = "json"
    /\ webhookSchemaIssues(req[h].value) = {}
    /\ Len(Data(h).email_addresses) > 0
    /\ userData' = [userData EXCEPT ![h] = userDataOf(Data(h))]
    /\ pc' = [pc EXCEPT ![h] = "user"]
    /\ UNCHANGED <<users, emails, req, idx, resp, err, pre, calls, again, order>>

Call(op, id, ok) == [op |-> op, id |-> id, ok |-> ok]

\* lines 104-113: the user upsert resolves and the loop begins
UserUpsertOk(h) ==
    /\ pc[h] = "user"
    /\ users' = UserUpsert(users, userData[h])
    /\ calls' = [calls EXCEPT ![h] = Append(@, Call("user", userData[h].id, TRUE))]
    /\ idx' = [idx EXCEPT ![h] = 1]
    /\ pc' = [pc EXCEPT ![h] = "emails"]
    /\ UNCHANGED <<emails, req, userData, resp, err, pre, again, order>>

\* lines 104-108: the user upsert rejects
UserUpsertThrows(h, errors) ==
    /\ pc[h] = "user"
    /\ \E error \in errors : Caught(h, error)
    /\ calls' = [calls EXCEPT ![h] = Append(@, Call("user", userData[h].id, FALSE))]
    /\ UNCHANGED <<users, emails, req, userData, idx, pre, again, order>>

\* the loop body upserts primaryEmail where email was meant
EmailUpsertPrimaryOk(h) ==
    /\ pc[h] = "emails"
    /\ LET email == Data(h).email_addresses[1]
       IN  /\ emails' = EmailUpsert(emails, email, Data(h).id)
           /\ calls' = [calls EXCEPT ![h] = Append(@, Call("email", email.id, TRUE))]
    /\ IF idx[h] < Len(Data(h).email_addresses)
       THEN /\ idx' = [idx EXCEPT ![h] = @ + 1]
            /\ UNCHANGED <<pc, resp>>
       ELSE /\ resp' = [resp EXCEPT ![h] = 200]
            /\ pc' = [pc EXCEPT ![h] = "done"]
            /\ UNCHANGED idx
    /\ UNCHANGED <<users, req, userData, err, pre, again, order>>

\* lines 113-140: one email upsert resolves; after the last one the
\* handler answers 200
EmailUpsertOk(h) ==
    /\ pc[h] = "emails"
    /\ LET email == Data(h).email_addresses[idx[h]]
       IN  /\ emails' = EmailUpsert(emails, email, Data(h).id)
           /\ calls' = [calls EXCEPT ![h] = Append(@, Call("email", email.id, TRUE))]
    /\ IF idx[h] < Len(Data(h).email_addresses)
       THEN /\ idx' = [idx EXCEPT ![h] = @ + 1]
            /\ UNCHANGED <<pc, resp>>
       ELSE /\ resp' = [resp EXCEPT ![h] = 200]
            /\ pc' = [pc EXCEPT ![h] = "done"]
            /\ UNCHANGED idx
    /\ UNCHANGED <<users, req, userData, err, pre, again, order>>

\* a try/catch inside the loop: the rejection is logged and the loop goes on
EmailUpsertSwallowed(h, errors) ==
    /\ pc[h] = "emails"
    /\ calls' = [calls EXCEPT ![h] =
                    Append(@, Call("email", Data(h).email_addresses[idx[h]].id, FALSE))]
    /\ IF idx[h] < Len(Data(h).email_addresses)
       THEN /\ idx' = [idx EXCEPT ![h] = @ + 1]
            /\ UNCHANGED <<pc, resp>>
       ELSE /\ resp' = [resp EXCEPT ![h] = 200]
            /\ pc' = [pc EXCEPT ![h] = "done"]
            /\ UNCHANGED idx
    /\ UNCHANGED <<users, emails, req, userData, err, pre, again, order>>

\* lines 114-128: one email upsert rejects
EmailUpsertThrows(h, errors) ==
    /\ pc[h] = "emails"
    /\ \E error \in errors : Caught(h, error)
    /\ calls' = [calls EXCEPT ![h] =
                    Append(@, Call("email", Data(h).email_addresses[idx[h]].id, FALSE))]
    /\ UNCHANGED <<users, emails, req, userData, idx, pre, again, order>>

(***************************************************************************)
(* The store an invocation leaves: the user upsert and the first k email   *)
(* upserts (lines 104-129), k short of the array's length when the         *)
(* (k+1)-th upsert rejected.                                               *)
(***************************************************************************)
RECURSIVE EmailLoop(_, _, _, _)
EmailLoop(table, email_addresses, userId, k) ==
    IF k = 0
    THEN table
    ELSE EmailUpsert(EmailLoop(table, email_addresses, userId, k - 1),
                     email_addresses[k], userId)

RunWrites(store, data, k) ==
    [users |-> UserUpsert(store.users, userDataOf(data)),
     emails |-> EmailLoop(store.emails, data.email_addresses, data.id, k)]

\* an invocation that answers 200
Process(store, data) == RunWrites(store, data, Len(data.email_addresses))

EmptyStore == [users |-> NoRows, emails |-> NoRows]

ValidData(D) == {d \in DataSet(D) : Len(d.email_addresses) > 0}

\* the stores one more invocation can leave, whether it completes, fails at
\* some upsert or is rejected
AfterOne(stores, D) ==
    stores \cup UNION {{RunWrites(s, d, k) : k \in 0..Len(d.email_addresses)} :
                          s \in stores, d \in ValidData(D)}

\* the stores that two earlier invocations, one after the other, leave
\* behind, starting from the empty store
PriorStores(D) == AfterOne(AfterOne({EmptyStore}, D), D)

InitWith(stores) ==
    /\ \E s \in stores : users = s.users /\ emails = s.emails
    /\ pc = [h \in Handlers |-> "idle"]
    /\ req = [h \in Handlers |-> NoRequest]
    /\ userData = [h \in Handlers |-> <<>>]
    /\ idx = [h \in Handlers |-> 0]
    /\ resp = [h \in Handlers |-> 0]
    /\ err = [h \in Handlers |-> NoError]
    /\ pre = [h \in Handlers |-> EmptyStore]
    /\ calls = [h \in Handlers |-> <<>>]
    /\ again = [h \in Handlers |-> FALSE]
    /\ order = <<>>

\* the database as it is first deployed
Init == InitWith({EmptyStore})

\* one request, handled from the empty store
NextOne ==
    \/ Receive(1, Events(NormalizeDomain) \cup BadBodies)
    \/ JsonThrows(1)
    \/ SchemaRejects(1)
    \/ NoPrimaryEmail(1)
    \/ Normalize(1)
    \/ UserUpsertOk(1)
    \/ UserUpsertThrows(1, StoreErrors)
    \/ EmailUpsertOk(1)
    \/ EmailUpsertThrows(1, StoreErrors)

SpecOne == Init /\ [][NextOne]_vars

\* one request and its redelivery, after earlier invocations for two users
InitStore == InitWith(PriorStores(StoreDomain))

NextStore ==
    \/ Receive(1, Events(StoreDomain) \cup BadBodies)
    \/ Redeliver(1)
    \/ JsonThrows(1)
    \/ SchemaRejects(1)
    \/ NoPrimaryEmail(1)
    \/ Normalize(1)
    \/ UserUpsertOk(1)
    \/ UserUpsertThrows(1, SomeStoreErrors)
    \/ EmailUpsertOk(1)
    \/ EmailUpsertThrows(1, SomeStoreErrors)

Spec == InitStore /\ [][NextStore]_vars

\* two invocations for the same user that overlap, interleaved at their
\* awaits, after an earlier invocation for another user
ConcurrentDomain ==
    [ids |-> {"user_1"},
     emailSeqs |-> SeqUpTo(EmailEntries({"idn_1"}, {"a@x.io", "b@x.io"}, {"verified"})
                             \cup EmailEntries({"idn_2"}, {"a@x.io"}, {"verified"}),
                           MaxEmails),
     first |-> {Null}, last |-> {Null}, image |-> {Null}, exts |-> {},
     updated |-> {2000}, banned |-> {FALSE}]

EarlierDomain ==
    [ConcurrentDomain EXCEPT
        !.ids = {"user_2"},
        !.emailSeqs = {<<e>> : e \in EmailEntries({"idn_1"}, {"b@x.io"}, {"verified"})}]

InitConcurrent == InitWith(AfterOne({EmptyStore}, EarlierDomain))

NextConcurrent ==
    \E h \in Handlers :
        \/ Receive(h, Events(ConcurrentDomain)
                        \cup {NoBody, BadJson, Json([type |-> "user.updated"])})
        \/ JsonThrows(h)
        \/ SchemaRejects(h)
        \/ NoPrimaryEmail(h)
        \/ Normalize(h)
        \/ UserUpsertOk(h)
        \/ UserUpsertThrows(h, SomeStoreErrors)
        \/ EmailUpsertOk(h)
        \/ EmailUpsertThrows(h, SomeStoreErrors)

SpecConcurrent == InitConcurrent /\ [][NextConcurrent]_vars

\* one request for a user whose row earlier invocations wrote, with
\* name, picture, ban and OAuth details that change from event to event
OverwriteDomain ==
    [ids |-> {"user_1"},
     emailSeqs |-> SeqUpTo(EmailEntries({"idn_1"}, {"a@x.io"}, {"verified", "unverified"}),
                           MaxEmails),
     first |-> {Null, "Grace"}, last |-> {Null},
     image |-> {Null, "https://img.clerk.com/u.png"},
     exts |-> {<<[email_address |-> "ada@gmail.com", approved_scopes |-> "email profile",
                  google_id |-> "g123"]>>},
     updated |-> {2000, 3000}, banned |-> {FALSE, TRUE}]

InitOverwrite == InitWith(PriorStores(OverwriteDomain))

NextOverwrite ==
    \/ Receive(1, Events(OverwriteDomain) \cup {NoBody, BadJson, Json([type |-> "user.updated"])})
    \/ JsonThrows(1)
    \/ SchemaRejects(1)
    \/ NoPrimaryEmail(1)
    \/ Normalize(1)
    \/ UserUpsertOk(1)
    \/ UserUpsertThrows(1, SomeStoreErrors)
    \/ EmailUpsertOk(1)
    \/ EmailUpsertThrows(1, SomeStoreErrors)

SpecOverwrite == InitOverwrite /\ [][NextOverwrite]_vars

(***************************************************************************)
(* Properties.                                                             *)
(***************************************************************************)
Answered(h) == pc[h] = "done"

Succeeded(h) == pc[h] = "done" /\ resp[h] = 200

HasData(h) == req[h].kind = "json" /\ Has(req[h].value, "data")

\* <<>> when the table has no row with this id
RowOf(table, id) == IF id \in DOMAIN table THEN <<table[id]>> ELSE <<>>

\* the row of the entry's id carries the entry's address and verification
HoldsEntry(table, e) ==
    /\ e.id \in DOMAIN table
    /\ table[e.id].emailAddress = e.email_address
    /\ table[e.id].verificationStatus = e.verification.status
    /\ table[e.id].verificationStrategy = e.verification.strategy

DistinctIds(es) == \A i, j \in 1..Len(es) : es[i].id = es[j].id => i = j

\* the request is bad input: no body, text that is not JSON, a JSON value
\* the schema rejects, or one with an empty email_addresses
BadInput(r) ==
    \/ r.kind = "none"
    \/ r.kind = "text"
    \/ r.kind = "json" /\ webhookSchemaIssues(r.value) # {}
    \/ r.kind = "json" /\ webhookSchemaIssues(r.value) = {}
                       /\ Len(r.value.data.email_addresses) = 0

\* C1: every request rejected as bad input (no body, a body that is not
\* well-formed JSON, a schema failure, an empty email_addresses) is
\* answered with status 400.
C1_BadInputAnswered400 ==
    \A h \in Handlers : Answered(h) /\ BadInput(req[h]) => resp[h] = 400

\* the event lacks email_addresses, or has none, or one of them is malformed
BadEmails(h) ==
    /\ HasData(h)
    /\ LET d == Data(h)
       IN  \/ ~Has(d, "email_addresses")
           \/ Len(d.email_addresses) = 0
           \/ \E i \in 1..Len(d.email_addresses) :
                  d.email_addresses[i].email_address \notin WellFormedEmails

\* C2: for an event whose email_addresses is missing or empty or holds a
\* malformed address, the handler issues no persistence call and both
\* tables stay as they were when the request arrived.
C2_NoPersistenceForBadEmails ==
    \A h \in Handlers :
        pc[h] # "idle" /\ BadEmails(h) => calls[h] = <<>> /\ Store = pre[h]

C2_Witness ==
    \E h \in Handlers :
        /\ Answered(h) /\ BadEmails(h) /\ resp[h] = 400
        /\ Has(Data(h), "email_addresses")
        /\ Len(Data(h).email_addresses) = 2
        /\ Data(h).email_addresses[1].email_address \in WellFormedEmails
        /\ pre[h].emails # NoRows

\* C3: when the same valid event is processed twice in sequence and both
\* runs succeed, the second run leaves the store exactly as the first run
\* left it, with a user row for the event's id.
C3_Idempotent ==
    \A h \in Handlers :
        Succeeded(h) /\ again[h] => Store = pre[h] /\ Data(h).id \in DOMAIN users

C3_Witness ==
    \E h \in Handlers :
        /\ Succeeded(h) /\ again[h]
        /\ Len(Data(h).email_addresses) = 2
        /\ \E e \in DOMAIN emails : emails[e].userId # Data(h).id

\* C4: after a valid event is processed successfully the stored user row
\* equals the userData derived from that event alone, in every field,
\* whatever the row held before; a field that is null in the event is
\* stored as null.
C4_Overwrite ==
    \A h \in Handlers :
        Succeeded(h) =>
            /\ RowOf(users, Data(h).id) = <<userData[h]>>
            /\ (Data(h).first_name = Null /\ ~Has(Data(h), "external_accounts")
                    => users[Data(h).id].firstName = Null
                       /\ users[Data(h).id].oauthProvider = Null)

C4_Witness ==
    \E h \in Handlers :
        /\ Succeeded(h)
        /\ Data(h).first_name = Null /\ ~Has(Data(h), "external_accounts")
        /\ Data(h).image_url = Null /\ ~Data(h).banned
        /\ Data(h).id \in DOMAIN pre[h].users
        /\ LET before == pre[h].users[Data(h).id]
           IN  /\ before.updatedAtClerk # userData[h].updatedAtClerk
               /\ before.firstName = "Grace"
               /\ before.oauthId = "g123"
               /\ before.imageUrl # Null
               /\ before.banned

\* C5 (for events whose email ids are pairwise distinct): after a valid
\* event is processed successfully, every entry e of its email_addresses
\* has a row with id e.id whose userId is the event's user id and whose
\* emailAddress, verificationStatus and verificationStrategy are those of
\* e, also when a row with that id existed and belonged to another user.
C5_EmailRowsLinkedToUser ==
    \A h \in Handlers :
        Succeeded(h) /\ DistinctIds(Data(h).email_addresses) =>
            \A i \in 1..Len(Data(h).email_addresses) :
                LET e == Data(h).email_addresses[i]
                IN  HoldsEntry(emails, e) /\ emails[e.id].userId = Data(h).id

\* the invocation ended in the catch block, on a rejected upsert
PersistenceFailed(h) ==
    Answered(h) /\ calls[h] # <<>> /\ ~calls[h][Len(calls[h])].ok

\* C6: a persistence failure at the user upsert or at any email upsert is
\* never answered 200; the status is 409 for P2002, 400 for P2014, 400 for
\* P2003 and 500 for every other error.
C6_FailureStatus ==
    \A h \in Handlers :
        PersistenceFailed(h) =>
            /\ resp[h] # 200
            /\ (err[h].known /\ err[h].code = "P2002" => resp[h] = 409)
            /\ (err[h].known /\ err[h].code = "P2014" => resp[h] = 400)
            /\ (err[h].known /\ err[h].code = "P2003" => resp[h] = 400)
            /\ (~err[h].known \/ err[h].code \notin {"P2002", "P2014", "P2003"}
                    => resp[h] = 500)

C6_Witness ==
    \E h \in Handlers :
        /\ PersistenceFailed(h)
        /\ Len(calls[h]) = 3
        /\ err[h] = [known |-> TRUE, code |-> "P2003"]
        /\ resp[h] = 400

\* the native field when it is not null, else the external account's field
\* when there is an account and the field is there and not null, else null
Resolved(d, native, external) ==
    IF d[native] # Null
    THEN d[native]
    ELSE IF /\ Has(d, "external_accounts")
            /\ Len(d.external_accounts) > 0
            /\ Has(d.external_accounts[1], external)
            /\ d.external_accounts[1][external] # Null
         THEN d.external_accounts[1][external]
         ELSE Null

\* C7: firstName is first_name when that is not null (the empty string
\* included), otherwise external_accounts[0].given_name when there is an
\* account and the value is not null or absent, otherwise null; lastName
\* and imageUrl follow the same rule, and no result is left undefined.
C7_Precedence ==
    \A h \in Handlers :
        userData[h] # <<>> =>
            /\ userData[h].firstName = Resolved(Data(h), "first_name", "given_name")
            /\ userData[h].lastName = Resolved(Data(h), "last_name", "family_name")
            /\ userData[h].imageUrl = Resolved(Data(h), "image_url", "picture")
            /\ {"firstName", "lastName", "imageUrl"} \subseteq DOMAIN userData[h]
            /\ Undefined \notin {userData[h].firstName, userData[h].lastName,
                                 userData[h].imageUrl}

C7_Witness ==
    \E h \in Handlers :
        /\ userData[h] # <<>>
        /\ Data(h).first_name = ""
        /\ Data(h).last_name = Null
        /\ Has(Data(h), "external_accounts")
        /\ Len(Data(h).external_accounts) > 0
        /\ Field(Data(h).external_accounts[1], "given_name") = "Ada"
        /\ Field(Data(h).external_accounts[1], "family_name") = "Lovelace"
        /\ userData[h].firstName = ""
        /\ userData[h].lastName = "Lovelace"

\* the calls are the user upsert and then the email upserts in the order
\* of the array, and only the last call may have failed
CallsInOrder(h) ==
    LET es == Data(h).email_addresses
    IN  /\ Len(calls[h]) <= 1 + Len(es)
        /\ \A j \in 1..Len(calls[h]) :
              /\ calls[h][j].op = IF j = 1 THEN "user" ELSE "email"
              /\ calls[h][j].id = IF j = 1 THEN Data(h).id ELSE es[j - 1].id
              /\ (j < Len(calls[h]) => calls[h][j].ok)

\* the user upsert failed: it was the only call and nothing was written
UserFailureLeavesStore(h) ==
    PersistenceFailed(h) /\ Len(calls[h]) = 1 => Store = pre[h]

BothSucceededOverlapping ==
    /\ \A h \in Handlers : Succeeded(h)
    /\ Len(order) = 2
    /\ Data(1).id = Data(2).id

\* the two events handled one after the other from the store before them
OneThenOther(first, second) ==
    Process(Process(pre[order[1]], Data(first)), Data(second))

\* C9, as claimed: when two invocations for the same user id overlap,
\* interleaved upsert by upsert, and both succeed, the final store is the
\* store that handling the two events one after the other, in one of the
\* two orders, produces.
C9_SerialOutcome ==
    BothSucceededOverlapping => Store \in {OneThenOther(1, 2), OneThenOther(2, 1)}

\* C9, amended: every row of the final store, the user row and each email
\* row, is that row as one of the two serial orders leaves it; the order
\* may differ from row to row.
C9_LastWriteWinsPerRow ==
    BothSucceededOverlapping =>
        /\ \A id \in DOMAIN users \cup DOMAIN OneThenOther(1, 2).users :
              RowOf(users, id) \in {RowOf(OneThenOther(1, 2).users, id),
                                    RowOf(OneThenOther(2, 1).users, id)}
        /\ \A id \in DOMAIN emails \cup DOMAIN OneThenOther(1, 2).emails :
              RowOf(emails, id) \in {RowOf(OneThenOther(1, 2).emails, id),
                                     RowOf(OneThenOther(2, 1).emails, id)}

C9_Witness ==
    /\ BothSucceededOverlapping
    /\ Store \notin {OneThenOther(1, 2), OneThenOther(2, 1)}
    /\ pre[order[1]].emails # NoRows

\* C10: every stored email row's userId is the id of a user row that
\* exists, after any interleaving of invocations that succeed, are
\* rejected or fail at some upsert.
C10_EmailOwnerExists ==
    \A id \in DOMAIN emails : emails[id].userId \in DOMAIN users

C10_Witness ==
    /\ \A h \in Handlers : Answered(h)
    /\ \E h \in Handlers : PersistenceFailed(h)
    /\ \E h \in Handlers : Succeeded(h)
    /\ \E id \in DOMAIN emails : emails[id].userId = "user_2"
    /\ \E id \in DOMAIN emails : emails[id].userId = "user_1"

====
